---- MODULE Spec2Model ----
(***************************************************************************)
(* Loopback capture, shared mode, timer driven                             *)
(* (example/LoopbackCaptureSharedTimerDriven/main.go).                     *)
(*                                                                         *)
(* The program polls an audio capture client, appends the bytes of every   *)
(* non-empty buffer region to WAVEFormat.RawData, counts them in the       *)
(* uint32 WAVEFormat.DataSize, stops on a duration gate or on SIGINT and   *)
(* writes WAVEFormat.Bytes() to the output file.                           *)
(*                                                                         *)
(* TLC's integers are 32-bit signed, while the program counts bytes in a   *)
(* uint32 and a 64-bit int and nanoseconds in an int64.  Such quantities   *)
(* are kept as little-endian sequences of base-256 digits without leading  *)
(* zero digits ("wide" numbers; <<>> is 0).  The bytes copied from buffer  *)
(* regions, which can add up to 2^32 bytes and more, are kept run-length   *)
(* encoded: a sequence of runs [b |-> byte, n |-> wide count], adjacent    *)
(* runs holding different bytes.                                           *)
(***************************************************************************)
EXTENDS Integers, Sequences, FiniteSets, TLC

(***************************************************************************)
(* Bounds of the model.                                                    *)
(***************************************************************************)
\* GetBuffer calls modelled per capture.
MaxPolls == 5
\* Longest RawData of the encoder's input space (besides the 8-byte sample).
MaxRawLen == 2

(***************************************************************************)
(* Wide numbers: the arithmetic of uint32, int and int64/float64 values.   *)
(* The operators bind their operands to values (x \in {a}) before walking  *)
(* the digits, so that a nested operand is evaluated once, also when the   *)
(* fairness condition of SpecLive evaluates ENABLED.                       *)
(***************************************************************************)
RECURSIVE BN(_)
\* The wide number of a non-negative integer.
BN(n) == IF n = 0 THEN <<>> ELSE <<n % 256>> \o BN(n \div 256)

RECURSIVE BNNorm(_)
\* Drop the leading (most significant) zero digits.
BNNorm(a) ==
  IF a = <<>> THEN <<>>
  ELSE IF a[Len(a)] = 0 THEN BNNorm(SubSeq(a, 1, Len(a) - 1))
  ELSE a

BNDigit(a) == IF a = <<>> THEN 0 ELSE Head(a)

BNRest(a) == IF a = <<>> THEN <<>> ELSE Tail(a)

RECURSIVE BNAddC(_, _, _)
BNAddC(a, b, c) ==
  IF a = <<>> /\ b = <<>> THEN BN(c)
  ELSE LET x == BNDigit(a) + BNDigit(b) + c
       IN  <<x % 256>> \o BNAddC(BNRest(a), BNRest(b), x \div 256)

\* a + b, unbounded.
BNAdd(a, b) == CHOOSE s \in {BNAddC(x, y, 0) : x \in {a}, y \in {b}} : TRUE

RECURSIVE BNSubB(_, _, _)
BNSubB(a, b, c) ==
  IF a = <<>> THEN <<>>
  ELSE LET x == BNDigit(a) - BNDigit(b) - c
       IN  <<x % 256>> \o BNSubB(BNRest(a), BNRest(b), IF x < 0 THEN 1 ELSE 0)

\* a - b for a >= b.
BNSub(a, b) ==
  CHOOSE s \in {BNNorm(BNSubB(x, y, 0)) : x \in {a}, y \in {b}} : TRUE

RECURSIVE BNMulC(_, _, _)
BNMulC(a, m, c) ==
  IF a = <<>> THEN BN(c)
  ELSE LET x == Head(a) * m + c
       IN  <<x % 256>> \o BNMulC(Tail(a), m, x \div 256)

\* a * m for a small integer m (m < 2^22).
BNMul(a, m) == CHOOSE p \in {BNNorm(BNMulC(x, m, 0)) : x \in {a}} : TRUE

RECURSIVE BNDivR(_, _)
\* Long division by a small integer d (0 < d < 2^22): quotient digits and remainder.
BNDivR(a, d) ==
  IF a = <<>> THEN [q |-> <<>>, r |-> 0]
  ELSE CHOOSE res \in
         { [q |-> <<(hi.r * 256 + lo) \div d>> \o hi.q, r |-> (hi.r * 256 + lo) % d] :
             hi \in {BNDivR(Tail(a), d)}, lo \in {Head(a)} } : TRUE

\* floor(a / d).
BNDiv(a, d) == CHOOSE q \in {BNNorm(BNDivR(x, d).q) : x \in {a}} : TRUE

RECURSIVE BNLess(_, _)
\* a < b.
BNLess(a, b) ==
  IF Len(a) # Len(b) THEN Len(a) < Len(b)
  ELSE IF a = <<>> THEN FALSE
  ELSE LET n == Len(a)
       IN  IF a[n] # b[n] THEN a[n] < b[n]
           ELSE BNLess(SubSeq(a, 1, n - 1), SubSeq(b, 1, n - 1))

\* Conversion to uint32: the low 32 bits.
U32(a) ==
  CHOOSE u \in {BNNorm(SubSeq(x, 1, IF Len(x) < 4 THEN Len(x) ELSE 4)) : x \in {a}} : TRUE

(***************************************************************************)
(* Byte strings ([]byte, bytes.Buffer): explicit bytes followed by         *)
(* run-length encoded bytes.  What is written byte by byte from a literal  *)
(* or a field is explicit; what is copied from a buffer region is a run.   *)
(***************************************************************************)
\* The empty byte string.
EmptyStr == [bytes |-> <<>>, runs |-> <<>>]

\* The byte string of an explicit sequence of bytes.
FromBytes(q) == [bytes |-> q, runs |-> <<>>]

\* The runs r followed by n bytes of value b.
RunsAppend(r, b, n) ==
  IF n = <<>> THEN r
  ELSE IF r # <<>> /\ r[Len(r)].b = b
       THEN [r EXCEPT ![Len(r)].n = BNAdd(@, n)]
       ELSE Append(r, [b |-> b, n |-> n])

\* s followed by n bytes of value b.
BAppendRun(s, b, n) == [s EXCEPT !.runs = RunsAppend(@, b, n)]

RECURSIVE RunsAppendBytes(_, _)
RunsAppendBytes(r, q) ==
  IF q = <<>> THEN r
  ELSE RunsAppendBytes(RunsAppend(r, Head(q), BN(1)), Tail(q))

RECURSIVE RunsConcat(_, _)
RunsConcat(r, t) ==
  IF t = <<>> THEN r
  ELSE RunsConcat(RunsAppend(r, t[1].b, t[1].n), Tail(t))

\* s followed by t.
BConcat(s, t) ==
  IF s.runs = <<>>
  THEN [bytes |-> s.bytes \o t.bytes, runs |-> t.runs]
  ELSE [bytes |-> s.bytes,
        runs |-> RunsConcat(RunsAppendBytes(s.runs, t.bytes), t.runs)]

RECURSIVE RunsLen(_)
RunsLen(r) == IF r = <<>> THEN <<>> ELSE BNAdd(r[1].n, RunsLen(Tail(r)))

\* len(s), a wide number.
BLen(s) == BNAdd(BN(Len(s.bytes)), RunsLen(s.runs))

(***************************************************************************)
(* encoding/binary                                                         *)
(***************************************************************************)
\* The ASCII codes of the four-character tags.
AsciiRIFF == <<82, 73, 70, 70>>
AsciiWAVEfmt == <<87, 65, 86, 69, 102, 109, 116, 32>>
AsciiData == <<100, 97, 116, 97>>

\* A wide number's digits padded with zero digits to w bytes.
Pad(a, w) == [i \in 1..w |-> IF i <= Len(a) THEN a[i] ELSE 0]

Reverse(q) == [i \in 1..Len(q) |-> q[Len(q) + 1 - i]]

\* The most-significant-byte-first encoding: what writing with the wrong
\* byte order would give.
BigEndianBytes(a, w) == Reverse(Pad(a, w))

\* binary.Write(buf, binary.LittleEndian, x) for a w-byte unsigned x.
LittleEndian(a, w) == Pad(a, w)

(***************************************************************************)
(* WAVEFormat.Bytes                                                        *)
(***************************************************************************)
\* Lines 36-47: the twelve header writes.
Header(v) ==
     AsciiRIFF
  \o LittleEndian(U32(BNAdd(v.DataSize, BN(36))), 4)
  \o AsciiWAVEfmt
  \o LittleEndian(BN(16), 4)
  \o LittleEndian(BN(1), 2)
  \o LittleEndian(BN(v.Channels), 2)
  \o LittleEndian(BN(v.SamplesPerSec), 4)
  \o LittleEndian(BN(v.AvgBytesPerSec), 4)
  \o LittleEndian(BN(v.BlockAlign), 2)
  \o LittleEndian(BN(v.BitsPerSample), 2)
  \o AsciiData
  \o LittleEndian(v.DataSize, 4)

\* Lines 33-51: the header writes, then RawData, in one buffer.
Bytes(v) == BConcat(FromBytes(Header(v)), v.RawData)

(***************************************************************************)
(* Inputs: the command line and what the audio session returns.            *)
(***************************************************************************)
\* time.Second in nanoseconds.
Second == 1000 * 1000 * 1000

\* A time.Duration (int64 nanoseconds): its sign and its magnitude, wide.
Dur(n) == [neg |-> n < 0, mag |-> BN(IF n < 0 THEN 0 - n ELSE n)]

\* d <= 0 for a time.Duration d.
NonPositive(d) == d.neg \/ d.mag = <<>>

\* durationFlag.Value after flag parsing (0: flag omitted).
Durations == {Dur(0), Dur(0 - Second), Dur(22675), Dur(Second)}

\* filenameFlag.Value after flag parsing ("": flag omitted).
Filenames == {"", "out.wav"}

\* What GetMixFormat may return: the endpoint's native mix format.
MixFormats ==
  { [WFormatTag |-> 65534, NChannels |-> 2, NSamplesPerSec |-> 48000,
     NAvgBytesPerSec |-> 384000, NBlockAlign |-> 8, WBitsPerSample |-> 32,
     CbSize |-> 22],
    [WFormatTag |-> 1, NChannels |-> 2, NSamplesPerSec |-> 44100,
     NAvgBytesPerSec |-> 176400, NBlockAlign |-> 4, WBitsPerSample |-> 16,
     CbSize |-> 0],
    [WFormatTag |-> 3, NChannels |-> 6, NSamplesPerSec |-> 96000,
     NAvgBytesPerSec |-> 2304000, NBlockAlign |-> 24, WBitsPerSample |-> 32,
     CbSize |-> 0] }

\* GetDevicePeriod's default period, in 100 ns units.
DevicePeriods == {100000}

\* GetBufferSize's frame count (200 ms at 44100 Hz).
BufferSizes == {8820}

\* A long stretch of captured audio in one region: four of them bring the
\* byte count to 2^32 - 16, a fifth takes it past 2^32.
BigFrames == 2^28 - 1

\* What GetBuffer may hand out: a frame count and the region's bytes (all
\* bytes of one region hold the value fill).
Regions ==
  { [frames |-> 0, fill |-> 0],
    [frames |-> 1, fill |-> 17],
    [frames |-> 44100, fill |-> 34],
    [frames |-> BigFrames, fill |-> 51] }

\* What GetCurrentPadding may report, in frames.
Paddings == {0, 441, 8821}

\* The WAVEFormat values the encoder is applied to on its own.
RawBytes == {0, 1, 255}

RawSeqs == UNION {[1..n -> RawBytes] : n \in 0..MaxRawLen} \cup {<<1, 2, 3, 4, 5, 6, 7, 8>>}

DataSizes ==
  { <<>>, BN(1), BN(2), BN(8), BN(258), <<219, 255, 255, 255>>,
    <<220, 255, 255, 255>>, <<255, 255, 255, 255>> }

EncFormats ==
  { [Channels |-> 2, SamplesPerSec |-> 44100, AvgBytesPerSec |-> 176400,
     BlockAlign |-> 4, BitsPerSample |-> 16],
    [Channels |-> 1, SamplesPerSec |-> 8000, AvgBytesPerSec |-> 8000,
     BlockAlign |-> 1, BitsPerSample |-> 8],
    [Channels |-> 258, SamplesPerSec |-> 96000, AvgBytesPerSec |-> 16909060,
     BlockAlign |-> 772, BitsPerSample |-> 32] }

(***************************************************************************)
(* State.                                                                  *)
(***************************************************************************)
VARIABLES
  pc,                \* where the program is
  filename,          \* filenameFlag.Value
  duration,          \* durationFlag.Value, a time.Duration
  wfx,               \* *wca.WAVEFORMATEX
  audio,             \* *WAVEFormat
  capturingPeriod,   \* nanoseconds, wide
  bufferFrameSize,   \* uint32
  isCapturing,
  currentDuration,   \* nanoseconds, wide
  signalChan,        \* number of signals buffered in the channel (capacity 1)
  data,              \* the byte value of the region GetBuffer pointed to
  availableFrameSize,
  padding,
  err,               \* "" is nil
  file,              \* the output file's bytes; empty while it does not exist
  stdout,            \* the lines printed so far
  slept,             \* the argument of the last time.Sleep, wide
  held,              \* a non-empty region was handed out and not yet released
  calls,             \* the session calls, appends, sleeps and file writes made
                     \* so far, by name
  afterSignal,       \* <<>>, or <<GetBuffer calls, ReleaseBuffer calls>> made
                     \* since the first SIGINT delivered while capturing
  releasedFrames     \* the argument of the last ReleaseBuffer call

vars == <<pc, filename, duration, wfx, audio, capturingPeriod, bufferFrameSize,
          isCapturing, currentDuration, signalChan, data, availableFrameSize,
          padding, err, file, stdout, slept, held, calls, afterSignal,
          releasedFrames>>

\* The zero value of wca.WAVEFORMATEX.
ZeroWfx ==
  [WFormatTag |-> 0, NChannels |-> 0, NSamplesPerSec |-> 0, NAvgBytesPerSec |-> 0,
   NBlockAlign |-> 0, WBitsPerSample |-> 0, CbSize |-> 0]

\* &WAVEFormat{}: the zero value (FormatTag is never set nor read).
ZeroAudio ==
  [Channels |-> 0, SamplesPerSec |-> 0, AvgBytesPerSec |-> 0, BlockAlign |-> 0,
   BitsPerSample |-> 0, DataSize |-> <<>>, RawData |-> EmptyStr]

NoCalls ==
  [GetBuffer |-> 0, Append |-> 0, GetCurrentPadding |-> 0, Sleep |-> 0,
   ReleaseBuffer |-> 0, Stop |-> 0, WriteFile |-> 0]

\* The program's positions between signal.Notify and the end of the loop.
LoopPcs == {"loop", "copy", "GetCurrentPadding", "Sleep", "ReleaseBuffer"}

Init ==
  /\ pc = "run"
  /\ filename \in Filenames
  /\ duration \in Durations
  /\ wfx = ZeroWfx
  /\ audio = ZeroAudio
  /\ capturingPeriod = <<>>
  /\ bufferFrameSize = 0
  /\ isCapturing = TRUE
  /\ currentDuration = <<>>
  /\ signalChan = 0
  /\ data = 0
  /\ availableFrameSize = 0
  /\ padding = 0
  /\ err = ""
  /\ file = EmptyStr
  /\ stdout = {}
  /\ slept = <<>>
  /\ held = FALSE
  /\ calls = NoCalls
  /\ afterSignal = <<>>
  /\ releasedFrames = 0

(***************************************************************************)
(* run, lines 95-118.                                                      *)
(***************************************************************************)
\* Lines 107-109: without an output file name nothing is captured.
RunNoOutput ==
  /\ pc = "run"
  /\ filename = ""
  /\ pc' = "done"
  /\ UNCHANGED <<releasedFrames, filename, duration, wfx, audio, capturingPeriod, bufferFrameSize,
                 isCapturing, currentDuration, signalChan, data,
                 availableFrameSize, padding, err, file, stdout, slept, held,
                 calls, afterSignal>>

\* Line 110 and lines 121-153: the capture function is entered and the audio
\* client is activated, or one of the activation calls fails.
RunCapture ==
  /\ pc = "run"
  /\ filename # ""
  /\ \/ /\ pc' = "GetMixFormat"
        /\ stdout' = stdout \cup {"Capturing what you hear from"}
        /\ err' = err
     \/ /\ pc' = "return"
        /\ err' = "Activate"
        /\ stdout' = stdout
  /\ UNCHANGED <<releasedFrames, filename, duration, wfx, audio, capturingPeriod, bufferFrameSize,
                 isCapturing, currentDuration, signalChan, data,
                 availableFrameSize, padding, file, slept, held, calls,
                 afterSignal>>

(***************************************************************************)
(* loopbackCaptureSharedTimerDriven, lines 120-276.                        *)
(***************************************************************************)
\* Lines 155-158.
GetMixFormat ==
  /\ pc = "GetMixFormat"
  /\ \/ /\ \E m \in MixFormats : wfx' = m
        /\ pc' = "override"
        /\ err' = err
     \/ /\ wfx' = wfx
        /\ pc' = "return"
        /\ err' = "GetMixFormat"
  /\ UNCHANGED <<releasedFrames, filename, duration, audio, capturingPeriod, bufferFrameSize,
                 isCapturing, currentDuration, signalChan, data,
                 availableFrameSize, padding, file, stdout, slept, held, calls,
                 afterSignal>>

\* The override with the negotiated sample rate left as it is.
OverrideKeepRate(w) ==
  LET a == [w EXCEPT !.WFormatTag = 1, !.NChannels = 2, !.WBitsPerSample = 16]
      b == [a EXCEPT !.NBlockAlign = (a.WBitsPerSample \div 8) * a.NChannels]
  IN  [b EXCEPT !.NAvgBytesPerSec = b.NSamplesPerSec * b.NBlockAlign,
                !.CbSize = 0]

\* Lines 161-167: the mix format overridden with the fixed profile.
Override(w) ==
  LET a == [w EXCEPT !.WFormatTag = 1, !.NChannels = 2,
                     !.NSamplesPerSec = 44100, !.WBitsPerSample = 16]
      b == [a EXCEPT !.NBlockAlign = (a.WBitsPerSample \div 8) * a.NChannels]
  IN  [b EXCEPT !.NAvgBytesPerSec = b.NSamplesPerSec * b.NBlockAlign,
                !.CbSize = 0]

\* Lines 169-174: the WAVEFormat built from the overridden format.
NewAudio(w) ==
  [ZeroAudio EXCEPT !.Channels = w.NChannels,
                    !.SamplesPerSec = w.NSamplesPerSec,
                    !.AvgBytesPerSec = w.NAvgBytesPerSec,
                    !.BlockAlign = w.NBlockAlign,
                    !.BitsPerSample = w.WBitsPerSample]

\* Lines 161-180.
OverrideFormat ==
  /\ pc = "override"
  /\ wfx' = Override(wfx)
  /\ audio' = NewAudio(wfx')
  /\ pc' = "Initialize"
  /\ UNCHANGED <<releasedFrames, filename, duration, capturingPeriod, bufferFrameSize,
                 isCapturing, currentDuration, signalChan, data,
                 availableFrameSize, padding, err, file, stdout, slept, held,
                 calls, afterSignal>>

\* Lines 182-213: the device period, Initialize, the buffer size, the capture
\* service and Start, or the failure of one of them.
Initialize ==
  /\ pc = "Initialize"
  /\ \/ /\ \E p \in DevicePeriods : capturingPeriod' = BN(p * 100)
        /\ \E n \in BufferSizes : bufferFrameSize' = n
        /\ stdout' = stdout \cup {"Start capturing"}
                       \cup (IF NonPositive(duration) THEN {"Press Ctrl-C to stop capturing"} ELSE {})
        /\ pc' = "presleep"
        /\ err' = err
     \/ /\ pc' = "return"
        /\ err' = "Initialize"
        /\ UNCHANGED <<capturingPeriod, bufferFrameSize, stdout>>
  /\ UNCHANGED <<releasedFrames, filename, duration, wfx, audio, isCapturing, currentDuration,
                 signalChan, data, availableFrameSize, padding, file, slept,
                 held, calls, afterSignal>>

\* Lines 214-227: the first sleep, the loop's variables, the signal channel.
PreSleep ==
  /\ pc = "presleep"
  /\ slept' = capturingPeriod
  /\ isCapturing' = TRUE
  /\ signalChan' = 0
  /\ pc' = "loop"
  /\ UNCHANGED <<releasedFrames, filename, duration, wfx, audio, capturingPeriod, bufferFrameSize,
                 currentDuration, data, availableFrameSize, padding, err, file,
                 stdout, held, calls, afterSignal>>

\* os/signal: a SIGINT is put into the channel unless the channel is full
\* (capacity 1), in which case it is dropped.
Interrupt ==
  /\ pc \in LoopPcs \cup {"Stop"}
  /\ signalChan = 0
  /\ signalChan' = 1
  /\ afterSignal' = IF afterSignal = <<>> /\ pc \in LoopPcs /\ isCapturing
                    THEN <<0, 0>> ELSE afterSignal
  /\ UNCHANGED <<releasedFrames, pc, filename, duration, wfx, audio, capturingPeriod,
                 bufferFrameSize, isCapturing, currentDuration, data,
                 availableFrameSize, padding, err, file, stdout, slept, held,
                 calls>>

\* One more call of a session method counted after the signal.
Counted(a, i) == IF a = <<>> THEN a ELSE [a EXCEPT ![i] = @ + 1]

\* A select that takes its default case whatever the channel holds.
DefaultAlways(ch) == TRUE

\* Line 238: select takes the default case only when no case is ready.
DefaultCase(ch) == ch = 0

\* Line 234: the receive case is ready.
SignalCase(ch) == ch > 0

\* The duration of the size taken as one channel's.
CurrentDurationMono(v) ==
  BNDiv(BNDiv(BNMul(BNMul(BNMul(v.DataSize, 1000), 1000), 1000),
              v.BitsPerSample \div 8),
        v.SamplesPerSec)

\* Line 239: size / (bits/8) / channels / rate seconds, converted to
\* time.Duration: whole nanoseconds, the fraction cut off.
CurrentDuration(v) ==
  BNDiv(BNDiv(BNDiv(BNMul(BNMul(BNMul(v.DataSize, 1000), 1000), 1000),
                    v.BitsPerSample \div 8),
              v.Channels),
        v.SamplesPerSec)

\* cur > d for a wide cur >= 0 and a time.Duration d.
Exceeds(cur, d) == IF d.neg THEN TRUE ELSE BNLess(d.mag, cur)

\* The gate with >= for >.
ShouldStopAtLeast(d, cur) ==
  d.mag # <<>> /\ (Exceeds(cur, d) \/ (~d.neg /\ cur = d.mag))

\* Line 240.
ShouldStop(d, cur) == d.mag # <<>> /\ Exceeds(cur, d)

\* A loop without the test of the flag.
RunningAlways(flag) == TRUE

\* Lines 230-232: the loop goes on while the flag is set.
Running(flag) == flag

\* Lines 230-232.
LoopBreak ==
  /\ pc = "loop"
  /\ ~Running(isCapturing)
  /\ pc' = "Stop"
  /\ stdout' = stdout \cup {"Stop capturing"}
  /\ UNCHANGED <<releasedFrames, filename, duration, wfx, audio, capturingPeriod, bufferFrameSize,
                 isCapturing, currentDuration, signalChan, data,
                 availableFrameSize, padding, err, file, slept, held, calls,
                 afterSignal>>

\* Lines 233-237.
SelectSignal ==
  /\ pc = "loop"
  /\ Running(isCapturing)
  /\ SignalCase(signalChan)
  /\ signalChan' = signalChan - 1
  /\ stdout' = stdout \cup {"Interrupted by SIGINT"}
  /\ isCapturing' = FALSE
  /\ UNCHANGED <<releasedFrames, pc, filename, duration, wfx, audio, capturingPeriod,
                 bufferFrameSize, currentDuration, data, availableFrameSize,
                 padding, err, file, slept, held, calls, afterSignal>>

\* Lines 238-243.
DurationGate ==
  /\ pc = "loop"
  /\ Running(isCapturing)
  /\ DefaultCase(signalChan)
  /\ currentDuration' = CurrentDuration(audio)
  /\ ShouldStop(duration, currentDuration')
  /\ isCapturing' = FALSE
  /\ UNCHANGED <<releasedFrames, pc, filename, duration, wfx, audio, capturingPeriod,
                 bufferFrameSize, signalChan, data, availableFrameSize, padding,
                 err, file, stdout, slept, held, calls, afterSignal>>

\* One more call or step of the given name.
Tally(c, name) == [c EXCEPT ![name] = @ + 1]

\* A loop that treats no region as empty.
EmptyNever(n) == FALSE

\* Line 247: the region is empty.
Empty(n) == n = 0

\* Lines 238-249: the default case passes the gate and calls GetBuffer, which
\* hands out one of the given regions or fails; c is the tally after the call.
GetBufferStep(regions, c) ==
  /\ pc = "loop"
  /\ Running(isCapturing)
  /\ DefaultCase(signalChan)
  /\ currentDuration' = CurrentDuration(audio)
  /\ ~ShouldStop(duration, currentDuration')
  /\ calls' = c
  /\ afterSignal' = Counted(afterSignal, 1)
  /\ \/ /\ \E r \in regions :
             /\ data' = r.fill
             /\ availableFrameSize' = r.frames
             /\ held' = (r.frames > 0)
             /\ pc' = IF Empty(r.frames) THEN "loop" ELSE "copy"
        /\ err' = err
     \/ /\ err' = "GetBuffer"
        /\ pc' = "return"
        /\ UNCHANGED <<data, availableFrameSize, held>>
  /\ UNCHANGED <<releasedFrames, filename, duration, wfx, audio, capturingPeriod,
                 bufferFrameSize, isCapturing, signalChan, padding, file, stdout,
                 slept>>

\* Lines 238-249.
GetBuffer ==
  /\ calls.GetBuffer < MaxPolls
  /\ GetBufferStep(Regions, Tally(calls, "GetBuffer"))

\* An append that leaves DataSize as it was.
AppendNoCount(v, b, lim) == [v EXCEPT !.RawData = BAppendRun(@, b, BN(lim))]

\* An append that counts frames where the code counts bytes.
AppendCountFrames(v, b, lim) ==
  [v EXCEPT !.RawData = BAppendRun(@, b, BN(lim)),
            !.DataSize = U32(BNAdd(@, U32(BN(lim \div 4))))]

\* Lines 254-258: lim bytes of the region appended, DataSize += uint32(lim).
AppendRegion(v, b, lim) ==
  [v EXCEPT !.RawData = BAppendRun(@, b, BN(lim)),
            !.DataSize = U32(BNAdd(@, U32(BN(lim))))]

\* Lines 251-258: the WAVEFormat becomes a; c is the tally after the step.
CopyStep(a, c) ==
  /\ pc = "copy"
  /\ audio' = a
  /\ calls' = c
  /\ pc' = "GetCurrentPadding"
  /\ UNCHANGED <<releasedFrames, filename, duration, wfx, capturingPeriod,
                 bufferFrameSize, isCapturing, currentDuration, signalChan, data,
                 availableFrameSize, padding, err, file, stdout, slept, held,
                 afterSignal>>

\* Lines 251-258.
Copy ==
  CopyStep(AppendRegion(audio, data, availableFrameSize * wfx.NBlockAlign),
           Tally(calls, "Append"))

\* Lines 259-261: GetCurrentPadding reports one of the given paddings or fails.
GetCurrentPaddingStep(paddings, c) ==
  /\ pc = "GetCurrentPadding"
  /\ calls' = c
  /\ \/ /\ \E p \in paddings : padding' = p
        /\ pc' = "Sleep"
        /\ err' = err
     \/ /\ padding' = padding
        /\ pc' = "return"
        /\ err' = "GetCurrentPadding"
  /\ UNCHANGED <<releasedFrames, filename, duration, wfx, audio, capturingPeriod,
                 bufferFrameSize, isCapturing, currentDuration, signalChan, data,
                 availableFrameSize, file, stdout, slept, held, afterSignal>>

\* Lines 259-261.
GetCurrentPadding == GetCurrentPaddingStep(Paddings, Tally(calls, "GetCurrentPadding"))

\* A subtraction that stops at zero.
SubClamped(a, b) == IF b <= a THEN BN(a - b) ELSE <<>>

\* bufferFrameSize - padding in uint32.
SubU32(a, b) == IF b <= a THEN BN(a - b) ELSE BNSub(<<0, 0, 0, 0, 1>>, BN(b - a))

\* Line 263: (bufferFrameSize - padding) / rate seconds as a time.Duration.
Period(buf, pad, rate) ==
  BNDiv(BNMul(BNMul(BNMul(SubU32(buf, pad), 1000), 1000), 1000), rate)

\* Lines 263-264.
SleepStep(c) ==
  /\ pc = "Sleep"
  /\ capturingPeriod' = Period(bufferFrameSize, padding, wfx.NSamplesPerSec)
  /\ slept' = BNDiv(capturingPeriod', 2)
  /\ calls' = c
  /\ pc' = "ReleaseBuffer"
  /\ UNCHANGED <<releasedFrames, filename, duration, wfx, audio, bufferFrameSize,
                 isCapturing, currentDuration, signalChan, data,
                 availableFrameSize, padding, err, file, stdout, held,
                 afterSignal>>

\* Lines 263-264.
Sleep == SleepStep(Tally(calls, "Sleep"))

\* Lines 265-267: ReleaseBuffer(availableFrameSize) succeeds or fails.
ReleaseBufferStep(c) ==
  /\ pc = "ReleaseBuffer"
  /\ calls' = c
  /\ releasedFrames' = availableFrameSize
  /\ \/ /\ held' = FALSE
        /\ afterSignal' = Counted(afterSignal, 2)
        /\ pc' = "loop"
        /\ err' = err
     \/ /\ pc' = "return"
        /\ err' = "ReleaseBuffer"
        /\ UNCHANGED <<held, afterSignal>>
  /\ UNCHANGED <<filename, duration, wfx, audio, capturingPeriod, bufferFrameSize,
                 isCapturing, currentDuration, signalChan, data,
                 availableFrameSize, padding, file, stdout, slept>>

\* Lines 265-267.
ReleaseBuffer == ReleaseBufferStep(Tally(calls, "ReleaseBuffer"))

\* Lines 271-275.
Stop ==
  /\ pc = "Stop"
  /\ calls' = [calls EXCEPT !.Stop = @ + 1]
  /\ pc' = "return"
  /\ \/ err' = err
     \/ err' = "Stop"
  /\ UNCHANGED <<releasedFrames, filename, duration, wfx, audio, capturingPeriod, bufferFrameSize,
                 isCapturing, currentDuration, signalChan, data,
                 availableFrameSize, padding, file, stdout, slept, held,
                 afterSignal>>

(***************************************************************************)
(* run, lines 110-117, and main, lines 88-93.                              *)
(***************************************************************************)
\* A run that goes on to write the file whatever the capture returned.
WritesAfterAlways(e) == TRUE

\* Lines 110-112: the file is written only when the capture returned no error.
WritesAfter(e) == e = ""

\* Lines 110-112 and 90-92: the capture's error ends the program.
RunFail ==
  /\ pc = "return"
  /\ ~WritesAfter(err)
  /\ pc' = "fatal"
  /\ UNCHANGED <<releasedFrames, filename, duration, wfx, audio, capturingPeriod, bufferFrameSize,
                 isCapturing, currentDuration, signalChan, data,
                 availableFrameSize, padding, err, file, stdout, slept, held,
                 calls, afterSignal>>

\* Lines 113-117: audio.Bytes() written to the file.
RunWrite ==
  /\ pc = "return"
  /\ WritesAfter(err)
  /\ calls' = [calls EXCEPT !.WriteFile = @ + 1]
  /\ \/ /\ file' = Bytes(audio)
        /\ stdout' = stdout \cup {"Successfully done"}
        /\ pc' = "done"
        /\ err' = err
     \/ /\ err' = "WriteFile"
        /\ pc' = "fatal"
        /\ UNCHANGED <<file, stdout>>
  /\ UNCHANGED <<releasedFrames, filename, duration, wfx, audio, capturingPeriod, bufferFrameSize,
                 isCapturing, currentDuration, signalChan, data,
                 availableFrameSize, padding, slept, held, afterSignal>>

Next ==
  \/ RunNoOutput
  \/ RunCapture
  \/ GetMixFormat
  \/ OverrideFormat
  \/ Initialize
  \/ PreSleep
  \/ Interrupt
  \/ LoopBreak
  \/ SelectSignal
  \/ DurationGate
  \/ GetBuffer
  \/ Copy
  \/ GetCurrentPadding
  \/ Sleep
  \/ ReleaseBuffer
  \/ Stop
  \/ RunFail
  \/ RunWrite

Spec == Init /\ [][Next]_vars

(***************************************************************************)
(* The encoder on its own: WAVEFormat.Bytes applied to WAVEFormat values.  *)
(***************************************************************************)
EncInputs ==
  { [f EXCEPT !.DataSize = n, !.RawData = FromBytes(q)] :
      f \in {[ZeroAudio EXCEPT !.Channels = e.Channels,
                               !.SamplesPerSec = e.SamplesPerSec,
                               !.AvgBytesPerSec = e.AvgBytesPerSec,
                               !.BlockAlign = e.BlockAlign,
                               !.BitsPerSample = e.BitsPerSample] : e \in EncFormats},
      n \in DataSizes, q \in RawSeqs }

InitEnc ==
  /\ pc = "Bytes"
  /\ audio \in EncInputs
  /\ filename = "out.wav"
  /\ duration = Dur(0)
  /\ wfx = ZeroWfx
  /\ capturingPeriod = <<>>
  /\ bufferFrameSize = 0
  /\ isCapturing = FALSE
  /\ currentDuration = <<>>
  /\ signalChan = 0
  /\ data = 0
  /\ availableFrameSize = 0
  /\ padding = 0
  /\ err = ""
  /\ file = EmptyStr
  /\ stdout = {}
  /\ slept = <<>>
  /\ held = FALSE
  /\ calls = NoCalls
  /\ afterSignal = <<>>
  /\ releasedFrames = 0

\* Line 113: audio.Bytes().
EncBytes ==
  /\ pc = "Bytes"
  /\ file' = Bytes(audio)
  /\ pc' = "encoded"
  /\ UNCHANGED <<releasedFrames, filename, duration, wfx, audio, capturingPeriod, bufferFrameSize,
                 isCapturing, currentDuration, signalChan, data,
                 availableFrameSize, padding, err, stdout, slept, held, calls,
                 afterSignal>>

NextEnc == EncBytes

SpecEnc == InitEnc /\ [][NextEnc]_vars

(***************************************************************************)
(* The capture without a bound on the number of polls.  The loop reads     *)
(* DataSize and never the bytes of RawData, nor any tally: here the bytes  *)
(* are left out, the tally of polls is kept modulo 2 and the other tallies *)
(* of the loop are left at 0, which keeps the states finite.  The program  *)
(* is one goroutine whose sleeps end: it always takes its next step.       *)
(***************************************************************************)
\* 2^28 frames, 2^30 bytes, in one region: four of them make 2^32 bytes.
LiveFrames == 2^28

LiveRegions == {[frames |-> 0, fill |-> 0], [frames |-> LiveFrames, fill |-> 51]}

LivePaddings == {0}

\* -d 25000: more than the (2^32 - 1) / 176400 seconds a uint32 size can hold.
LongDuration ==
  [neg |-> FALSE, mag |-> BNMul(BNMul(BNMul(BN(25000), 1000), 1000), 1000)]

LiveDurations == {Dur(0), Dur(Second), LongDuration}

InitLive ==
  /\ pc = "run"
  /\ filename \in Filenames
  /\ duration \in LiveDurations
  /\ wfx = ZeroWfx
  /\ audio = ZeroAudio
  /\ capturingPeriod = <<>>
  /\ bufferFrameSize = 0
  /\ isCapturing = TRUE
  /\ currentDuration = <<>>
  /\ signalChan = 0
  /\ data = 0
  /\ availableFrameSize = 0
  /\ padding = 0
  /\ err = ""
  /\ file = EmptyStr
  /\ stdout = {}
  /\ slept = <<>>
  /\ held = FALSE
  /\ calls = NoCalls
  /\ afterSignal = <<>>
  /\ releasedFrames = 0

\* The WAVEFormat with its bytes left out.
SizeOnly(v) == [v EXCEPT !.RawData = EmptyStr]

\* Lines 238-249.
GetBufferLive ==
  GetBufferStep(LiveRegions, [calls EXCEPT !.GetBuffer = (@ + 1) % 2])

\* Lines 251-258.
CopyLive ==
  CopyStep(SizeOnly(AppendRegion(audio, data, availableFrameSize * wfx.NBlockAlign)),
           calls)

\* Lines 259-261.
GetCurrentPaddingLive == GetCurrentPaddingStep(LivePaddings, calls)

\* Lines 263-264.
SleepLive == SleepStep(calls)

\* Lines 265-267.
ReleaseBufferLive == ReleaseBufferStep(calls)

\* The steps of the program (all but the delivery of a signal).
ProgramLive ==
  \/ RunNoOutput
  \/ RunCapture
  \/ GetMixFormat
  \/ OverrideFormat
  \/ Initialize
  \/ PreSleep
  \/ LoopBreak
  \/ SelectSignal
  \/ DurationGate
  \/ GetBufferLive
  \/ CopyLive
  \/ GetCurrentPaddingLive
  \/ SleepLive
  \/ ReleaseBufferLive
  \/ Stop
  \/ RunFail
  \/ RunWrite

NextLive ==
  \/ RunNoOutput
  \/ RunCapture
  \/ GetMixFormat
  \/ OverrideFormat
  \/ Initialize
  \/ PreSleep
  \/ Interrupt
  \/ LoopBreak
  \/ SelectSignal
  \/ DurationGate
  \/ GetBufferLive
  \/ CopyLive
  \/ GetCurrentPaddingLive
  \/ SleepLive
  \/ ReleaseBufferLive
  \/ Stop
  \/ RunFail
  \/ RunWrite

SpecLive == InitLive /\ [][NextLive]_vars /\ WF_vars(ProgramLive)

(***************************************************************************)
(* Properties.                                                             *)
(***************************************************************************)
\* The 44 header bytes of a written file.
HeaderOf(f) == SubSeq(f.bytes, 1, 44)

\* What follows the 44 header bytes.
BodyOf(f) == [bytes |-> SubSeq(f.bytes, 45, Len(f.bytes)), runs |-> f.runs]

\* The unsigned number a sequence of bytes holds, read little-endian.
DecodeLE(q) == BNNorm(q)

\* The unsigned number a little-endian field of a file holds.
Field(f, from, to) == DecodeLE(SubSeq(f.bytes, from, to))

\* The fixed profile: 2 channels, 44100 Hz, 16 bits.
IsFixedProfile(v) ==
  /\ v.Channels = 2
  /\ v.SamplesPerSec = 44100
  /\ v.BitsPerSample = 16
  /\ v.BlockAlign = (v.BitsPerSample \div 8) * v.Channels
  /\ v.AvgBytesPerSec = v.SamplesPerSec * v.BlockAlign

\* C1: Bytes() is a 44-byte header followed by RawData and nothing else:
\* "RIFF", uint32 LE DataSize+36 (a uint32 sum), "WAVEfmt ", uint32 16,
\* uint16 1, Channels, SamplesPerSec, AvgBytesPerSec, BlockAlign,
\* BitsPerSample, "data", uint32 LE DataSize, RawData.  An empty capture
\* gives 44 bytes with data size 0; 8 data bytes at 2 ch / 44100 Hz / 16 bit
\* give 52 bytes with bytes[40:44] = 8 and bytes[4:8] = 44.
C1_BytesLayout ==
  pc = "encoded" =>
    /\ Len(file.bytes) >= 44
    /\ SubSeq(file.bytes, 1, 4) = <<82, 73, 70, 70>>
    /\ Field(file, 5, 8) = U32(BNAdd(audio.DataSize, BN(36)))
    /\ SubSeq(file.bytes, 9, 16) = <<87, 65, 86, 69, 102, 109, 116, 32>>
    /\ Field(file, 17, 20) = BN(16)
    /\ Field(file, 21, 22) = BN(1)
    /\ Field(file, 23, 24) = BN(audio.Channels)
    /\ Field(file, 25, 28) = BN(audio.SamplesPerSec)
    /\ Field(file, 29, 32) = BN(audio.AvgBytesPerSec)
    /\ Field(file, 33, 34) = BN(audio.BlockAlign)
    /\ Field(file, 35, 36) = BN(audio.BitsPerSample)
    /\ SubSeq(file.bytes, 37, 40) = <<100, 97, 116, 97>>
    /\ Field(file, 41, 44) = audio.DataSize
    /\ BodyOf(file) = audio.RawData
    /\ BLen(file) = BNAdd(BN(44), BLen(audio.RawData))
    /\ (audio.RawData = EmptyStr /\ audio.DataSize = <<>> =>
          /\ file.bytes = HeaderOf(file)
          /\ file.runs = <<>>
          /\ SubSeq(file.bytes, 41, 44) = <<0, 0, 0, 0>>)
    /\ (IsFixedProfile(audio) /\ audio.DataSize = BN(8) /\ BLen(audio.RawData) = BN(8) =>
          /\ BLen(file) = BN(52)
          /\ SubSeq(file.bytes, 41, 44) = <<8, 0, 0, 0>>
          /\ SubSeq(file.bytes, 5, 8) = <<44, 0, 0, 0>>)

\* C1 witness: the 8-byte sample at the fixed profile, encoded to 52 bytes.
C1_Witness ==
  /\ pc = "encoded"
  /\ IsFixedProfile(audio)
  /\ audio.DataSize = BN(8)
  /\ audio.RawData = FromBytes(<<1, 2, 3, 4, 5, 6, 7, 8>>)
  /\ BLen(file) = BN(52)

\* size / (bits/8) / channels / rate seconds, as a real number, exceeds d
\* nanoseconds: size * 10^9 > d * (bits/8) * channels * rate.
RealExceeds(v, d) ==
  \/ d.neg
  \/ BNLess(BNMul(BNMul(BNMul(d.mag, v.BitsPerSample \div 8), v.Channels),
                  v.SamplesPerSec),
            BNMul(BNMul(BNMul(v.DataSize, 1000), 1000), 1000))

\* The same duration cut to whole nanoseconds exceeds d:
\* size * 10^9 >= (d + 1) * (bits/8) * channels * rate.
WholeNsExceeds(v, d) ==
  \/ d.neg
  \/ ~BNLess(BNMul(BNMul(BNMul(v.DataSize, 1000), 1000), 1000),
             BNMul(BNMul(BNMul(BNAdd(d.mag, BN(1)), v.BitsPerSample \div 8), v.Channels),
                   v.SamplesPerSec))

\* The loop is at the top of an iteration, capturing, with no signal pending.
AtGate == pc = "loop" /\ isCapturing /\ signalChan = 0

\* This step clears the flag without receiving a signal.
GateStep == isCapturing /\ ~isCapturing' /\ signalChan' = signalChan

\* C2 as stated: with D # 0 the loop stops by the gate at the first iteration
\* top at which the real-valued current duration exceeds D, without a buffer
\* access in that iteration, and never while it is <= D; for D = 1 s it stops
\* once the size exceeds 176400 bytes and not at 176400.
C2_Original ==
  [][ /\ (AtGate /\ duration # Dur(0) /\ RealExceeds(audio, duration) =>
            calls' = calls /\ (pc' = pc => ~isCapturing' \/ signalChan' # signalChan))
      /\ (GateStep => duration # Dur(0) /\ RealExceeds(audio, duration) /\ calls' = calls)
    ]_vars

\* C2 amended: the same with the current duration as line 239 computes it,
\* cut to whole nanoseconds; a pending signal is served first.
C2_DurationGate ==
  [][ /\ (AtGate /\ duration # Dur(0) /\ WholeNsExceeds(audio, duration) =>
            calls' = calls /\ (pc' = pc => ~isCapturing' \/ signalChan' # signalChan))
      /\ (GateStep =>
            /\ duration # Dur(0)
            /\ WholeNsExceeds(audio, duration)
            /\ calls' = calls /\ audio' = audio /\ pc' = pc)
      /\ (AtGate /\ duration # Dur(0) /\ ~WholeNsExceeds(audio, duration) => isCapturing')
      /\ (AtGate /\ duration = Dur(Second) /\ ~BNLess(BN(176400), audio.DataSize) =>
            isCapturing')
      /\ (AtGate /\ duration = Dur(Second) /\ BNLess(BN(176400), audio.DataSize) =>
            calls' = calls)
    ]_vars

\* C2 witness: one second requested, the gate fired at 176404 bytes.
C2_Witness ==
  /\ duration = Dur(Second)
  /\ ~isCapturing
  /\ "Interrupted by SIGINT" \notin stdout
  /\ audio.DataSize = BN(176404)
  /\ calls.GetBuffer >= 2

\* C3 as stated: with a requested duration <= 0 the loop leaves Running only
\* because the interrupt was observed.
C3_Unbounded ==
  (NonPositive(duration) /\ ~isCapturing) => "Interrupted by SIGINT" \in stdout

SessionErrors == {"GetBuffer", "GetCurrentPadding", "ReleaseBuffer", "Stop"}

\* C5: the file is written at most once, only after the loop stopped and
\* Stop succeeded; when a session call fails the error reaches the top
\* level, no call is made after it and nothing is written.
C5_NoPartialSuccess ==
  /\ [](/\ calls.WriteFile <= 1
        /\ (calls.WriteFile > 0 =>
              ~isCapturing /\ calls.Stop = 1 /\ err \in {"", "WriteFile"})
        /\ (file # EmptyStr => calls.WriteFile = 1 /\ err = "" /\ pc = "done")
        /\ (err \in SessionErrors =>
              file = EmptyStr /\ calls.WriteFile = 0 /\ pc \in {"return", "fatal"}))
  /\ [][err # "" => err' = err /\ calls' = calls /\ file' = file /\ pc' = "fatal"]_vars

\* C5 witness: a release failed after bytes were accumulated; the program
\* ended on the error with no file.
C5_Witness ==
  /\ pc = "fatal"
  /\ err = "ReleaseBuffer"
  /\ audio.DataSize # <<>>
  /\ file = EmptyStr

\* C6 as stated: the header of the file written at the end of any capture
\* decodes to the format descriptor, and its data size is the number of raw
\* bytes that follow the header.
C6_RoundTrip ==
  (pc = "done" /\ file # EmptyStr) =>
    /\ Field(file, 23, 24) = BN(audio.Channels)
    /\ Field(file, 25, 28) = BN(audio.SamplesPerSec)
    /\ Field(file, 29, 32) = BN(audio.AvgBytesPerSec)
    /\ Field(file, 33, 34) = BN(audio.BlockAlign)
    /\ Field(file, 35, 36) = BN(audio.BitsPerSample)
    /\ Field(file, 41, 44) = BLen(BodyOf(file))

\* C7 as stated: the RIFF size field of a written file is the data size
\* plus 36.
C7_RiffSize ==
  (pc = "done" /\ file # EmptyStr) =>
    Field(file, 5, 8) = BNAdd(audio.DataSize, BN(36))

\* C8: from the override on, the format used for the capture and for the
\* container is PCM, 2 channels, 44100 Hz, 16 bits, with block align
\* bits/8 * channels and byte rate rate * block align, whatever the mix
\* format was, in every state up to the end.
C8_FixedProfile ==
  (wfx # ZeroWfx /\ pc # "override") =>
    /\ wfx.WFormatTag = 1
    /\ wfx.NChannels = 2
    /\ wfx.NSamplesPerSec = 44100
    /\ wfx.WBitsPerSample = 16
    /\ wfx.NBlockAlign = 4
    /\ wfx.NAvgBytesPerSec = 176400
    /\ IsFixedProfile(audio)
    /\ audio.BlockAlign = wfx.NBlockAlign
    /\ audio.AvgBytesPerSec = wfx.NAvgBytesPerSec
    /\ (file # EmptyStr =>
          /\ Field(file, 21, 22) = BN(1)
          /\ Field(file, 23, 24) = BN(2)
          /\ Field(file, 25, 28) = BN(44100)
          /\ Field(file, 35, 36) = BN(16))

\* C8 witness: a file written after a capture of some bytes.
C8_Witness ==
  /\ pc = "done"
  /\ file # EmptyStr
  /\ audio.DataSize # <<>>
  /\ IsFixedProfile(audio)

\* C9 as stated: at every iteration boundary the size counter equals the
\* length of the byte sequence.
C9_SizeIsLength == pc = "loop" => audio.DataSize = BLen(audio.RawData)

\* C10: the flag is true when the loop is entered, goes from true to false
\* only at the top of an iteration by the gate or the received signal, never
\* back, is false once the loop has ended, and once it is false there is no
\* GetBuffer, append, GetCurrentPadding, sleep or ReleaseBuffer.
C10_RunningFlag ==
  /\ [](pc \in {"Stop"} \/ calls.Stop > 0 => ~isCapturing)
  /\ [](pc \in LoopPcs \ {"loop"} => isCapturing)
  /\ [][ /\ (pc = "presleep" /\ pc' = "loop" => isCapturing')
         /\ (isCapturing' # isCapturing =>
               /\ isCapturing /\ ~isCapturing' /\ pc = "loop"
               /\ \/ signalChan = 1 /\ signalChan' = 0
                  \/ /\ signalChan = 0 /\ signalChan' = 0
                     /\ duration # Dur(0)
                     /\ Exceeds(CurrentDuration(audio), duration))
         /\ (~isCapturing =>
               /\ ~isCapturing'
               /\ calls'.GetBuffer = calls.GetBuffer
               /\ calls'.GetCurrentPadding = calls.GetCurrentPadding
               /\ calls'.ReleaseBuffer = calls.ReleaseBuffer
               /\ audio' = audio
               /\ slept' = slept)
       ]_vars

\* C10 witness: a capture of some bytes ended by the gate and stopped.
C10_Witness ==
  /\ calls.Stop = 1
  /\ ~isCapturing
  /\ "Interrupted by SIGINT" \notin stdout
  /\ audio.DataSize # <<>>

\* C11: a poll that reports availableFrameSize = 0 leaves the accumulator
\* (size and bytes) as it was, makes no append, no padding query, no sleep
\* and no ReleaseBuffer call, holds no region, and is back at the top of the
\* loop.
C11_EmptyPoll ==
  [][ (calls'.GetBuffer # calls.GetBuffer /\ err' = err /\ availableFrameSize' = 0) =>
        /\ audio' = audio
        /\ calls'.Append = calls.Append
        /\ calls'.GetCurrentPadding = calls.GetCurrentPadding
        /\ calls'.Sleep = calls.Sleep
        /\ calls'.ReleaseBuffer = calls.ReleaseBuffer
        /\ slept' = slept
        /\ capturingPeriod' = capturingPeriod
        /\ releasedFrames' = releasedFrames
        /\ ~held'
        /\ pc' = "loop"
    ]_vars

\* C11 witness: after one drained region of one frame, a poll found nothing.
C11_Witness ==
  /\ pc = "loop"
  /\ err = ""
  /\ availableFrameSize = 0
  /\ calls.GetBuffer = 2
  /\ calls.ReleaseBuffer = 1
  /\ calls.GetCurrentPadding = 1
  /\ audio.DataSize = BN(4)

\* C12 as stated: a region handed out with availableFrameSize > 0 is held
\* only inside the iteration that acquired it: at the top of an iteration,
\* once the loop has ended and once the capture function has returned (with
\* or without an error) no region is held.
C12_BorrowScoped ==
  pc \in {"loop", "Stop", "return", "fatal", "done"} => ~held

\* The runs r are a prefix of the runs q.
RunsPrefix(r, q) ==
  /\ Len(r) <= Len(q)
  /\ \A i \in 1..(Len(r) - 1) : r[i] = q[i]
  /\ (r # <<>> =>
        /\ r[Len(r)].b = q[Len(r)].b
        /\ ~BNLess(q[Len(r)].n, r[Len(r)].n))

\* The byte string s is a prefix of the byte string t.
IsPrefix(s, t) ==
  \/ /\ s.runs = <<>>
     /\ Len(s.bytes) <= Len(t.bytes)
     /\ s.bytes = SubSeq(t.bytes, 1, Len(s.bytes))
  \/ /\ s.bytes = t.bytes
     /\ RunsPrefix(s.runs, t.runs)

\* This step is a GetBuffer call that hands out a non-empty region.
AcquireStep ==
  calls'.GetBuffer # calls.GetBuffer /\ err' = err /\ availableFrameSize' > 0

\* C13: in an iteration that obtained availableFrameSize > 0 the steps come
\* in the order acquire, append, padding query, sleep, release.  The append
\* puts exactly availableFrameSize * NBlockAlign bytes of the region at the
\* tail of RawData and adds that count to DataSize (a uint32 addition); the
\* release signals the availableFrameSize of the acquire; a non-empty region
\* is acquired only while none is held, and nothing is appended without a
\* held region.
C13_IterationOrder ==
  /\ [](/\ calls.Append >= calls.GetCurrentPadding
        /\ calls.GetCurrentPadding >= calls.Sleep
        /\ calls.Sleep >= calls.ReleaseBuffer
        /\ calls.ReleaseBuffer + 1 >= calls.Append
        /\ (held /\ err = "" => calls.Append <= calls.ReleaseBuffer + 1))
  /\ [][ /\ (AcquireStep =>
               ~held /\ held' /\ calls.Append = calls.ReleaseBuffer /\ audio' = audio)
         /\ (pc \in LoopPcs /\ (audio' # audio \/ calls'.Append # calls.Append) =>
               /\ held /\ held'
               /\ availableFrameSize > 0
               /\ calls'.Append = calls.Append + 1
               /\ calls.Append = calls.ReleaseBuffer
               /\ IsPrefix(audio.RawData, audio'.RawData)
               /\ BLen(audio'.RawData) =
                    BNAdd(BLen(audio.RawData), BN(availableFrameSize * wfx.NBlockAlign))
               /\ audio'.RawData.runs[Len(audio'.RawData.runs)].b = data
               /\ audio'.DataSize =
                    U32(BNAdd(audio.DataSize, BN(availableFrameSize * wfx.NBlockAlign))))
         /\ (calls'.GetCurrentPadding # calls.GetCurrentPadding =>
               held /\ calls.Append = calls.GetCurrentPadding + 1)
         /\ (calls'.Sleep # calls.Sleep =>
               held /\ held' /\ calls.GetCurrentPadding = calls.Sleep + 1)
         /\ (calls'.ReleaseBuffer # calls.ReleaseBuffer =>
               /\ held
               /\ calls.Sleep = calls.ReleaseBuffer + 1
               /\ availableFrameSize > 0
               /\ releasedFrames' = availableFrameSize)
         /\ (held /\ held' => availableFrameSize' = availableFrameSize)
         /\ (held /\ ~held' =>
               calls'.ReleaseBuffer = calls.ReleaseBuffer + 1 /\ err' = err)
       ]_vars

\* C13 witness: a second region (44100 frames) was acquired, appended after
\* the first one's 4 bytes, the padding queried, the sleep done and the
\* region released with its 44100 frames.
C13_Witness ==
  /\ pc = "loop"
  /\ ~held
  /\ calls.ReleaseBuffer = 2
  /\ calls.Append = 2
  /\ releasedFrames = 44100
  /\ audio.DataSize = BN(176404)
  /\ audio.RawData.runs = <<[b |-> 17, n |-> BN(4)], [b |-> 34, n |-> BN(176400)]>>

\* (a - b) mod 2^32 for two uint32 values given as integers.
DiffMod32(a, b) ==
  BNSub(BNAdd(BN(a), IF a < b THEN <<0, 0, 0, 0, 1>> ELSE <<>>), BN(b))

\* ns is the whole number of nanoseconds in frames / (k * rate) seconds:
\* k * rate * ns <= frames * 10^9 < k * rate * (ns + 1).
WholeNs(ns, frames, k, rate) ==
  LET f9 == BNMul(BNMul(BNMul(frames, 1000), 1000), 1000)
  IN  /\ ~BNLess(f9, BNMul(BNMul(ns, k), rate))
      /\ BNLess(f9, BNMul(BNMul(BNAdd(ns, BN(1)), k), rate))

\* C14: after the padding query of a non-empty drain the loop sleeps, in
\* whole nanoseconds, half of (bufferFrameSize - padding) / NSamplesPerSec
\* seconds, the difference taken in uint32 (it wraps when padding exceeds
\* bufferFrameSize), for every padding reported; capturingPeriod is that
\* period itself.
C14_HalfPeriodSleep ==
  pc = "ReleaseBuffer" =>
    /\ WholeNs(slept, DiffMod32(bufferFrameSize, padding), 2, wfx.NSamplesPerSec)
    /\ WholeNs(capturingPeriod, DiffMod32(bufferFrameSize, padding), 1,
               wfx.NSamplesPerSec)
    /\ (padding = 0 => slept = BN(100000000))
    /\ (padding = 441 => slept = BN(95000000))

\* C14 witness: the padding reported (8821) exceeds the buffer size (8820);
\* the difference wraps to 2^32 - 1 frames and the sleep is over 13 hours.
C14_Witness ==
  /\ pc = "ReleaseBuffer"
  /\ padding = 8821
  /\ bufferFrameSize = 8820
  /\ BNLess(BNMul(BNMul(BNMul(BN(3600 * 13), 1000), 1000), 1000), slept)

\* C15 as stated: the accumulator is append-only: over every step of the
\* loop the bytes before the step are a prefix of the bytes after it, and
\* neither the length of the bytes nor DataSize decreases.
C15_AppendOnly ==
  [][ (pc \in LoopPcs) =>
        /\ IsPrefix(audio.RawData, audio'.RawData)
        /\ ~BNLess(BLen(audio'.RawData), BLen(audio.RawData))
        /\ ~BNLess(audio'.DataSize, audio.DataSize)
    ]_vars

\* C16 as stated: as long as no poll has handed out a frame and no interrupt
\* has been observed, the loop stays Running, whatever the requested
\* duration is: the gate cannot fire while the size is 0.
C16_IdleNeverStops ==
  (/\ pc \in LoopPcs \cup {"Stop", "return", "done", "fatal"}
   /\ calls.Append = 0
   /\ audio.DataSize = <<>>
   /\ "Interrupted by SIGINT" \notin stdout) => isCapturing

\* The errors of the session calls of the loop.
LoopErrors == {"GetBuffer", "GetCurrentPadding", "ReleaseBuffer"}

\* The requested duration is positive.
Positive(d) == ~d.neg /\ d.mag # <<>>

\* C17 as stated: Stop is called at most once, and when no session call of
\* the loop fails the loop eventually stops and Stop is called, provided an
\* interrupt is eventually delivered, or the requested duration is positive
\* and GetBuffer hands out a non-empty region infinitely often.
C17_EventuallyStops ==
  /\ [](calls.Stop <= 1)
  /\ ((/\ [](err \notin LoopErrors)
       /\ \/ <>(signalChan = 1)
          \/ (Positive(duration) /\ []<>(pc = "copy")))
      => <>(~isCapturing /\ calls.Stop = 1))

\* The WAVEFormat v with the size n.
WithSize(v, n) == [v EXCEPT !.DataSize = n]

\* DataSize before the last append: DataSize - availableFrameSize *
\* NBlockAlign in uint32.
SizeBeforeAppend ==
  U32(BNSub(BNAdd(audio.DataSize, <<0, 0, 0, 0, 1>>),
            BN(availableFrameSize * wfx.NBlockAlign)))

\* C18 as stated: when the gate stops the loop with D > 0 the size is more
\* than the bytes of D (size * 10^9 > D * byte rate) and the size before the
\* last append was at most the bytes of D; no append starts from a size
\* above the bytes of D.
C18_Original ==
  [][ /\ (GateStep /\ Positive(duration) =>
            /\ availableFrameSize > 0
            /\ calls.Append > 0
            /\ RealExceeds(audio, duration)
            /\ ~RealExceeds(WithSize(audio, SizeBeforeAppend), duration))
      /\ (calls'.Append # calls.Append /\ Positive(duration) =>
            ~RealExceeds(audio, duration))
    ]_vars

\* C18 amended: the same with the duration of a size cut to whole
\* nanoseconds, as line 239 computes it: at the gate's stop the size is at
\* least the bytes of D + 1 ns (hence more than the bytes of D), and the
\* size before the last append was less than the bytes of D + 1 ns.
C18_Overshoot ==
  [][ /\ (GateStep /\ Positive(duration) =>
            /\ availableFrameSize > 0
            /\ calls.Append > 0
            /\ ~held
            /\ WholeNsExceeds(audio, duration)
            /\ RealExceeds(audio, duration)
            /\ ~WholeNsExceeds(WithSize(audio, SizeBeforeAppend), duration))
      /\ (calls'.Append # calls.Append /\ Positive(duration) =>
            ~WholeNsExceeds(audio, duration))
    ]_vars

\* C18 witness: 22675 ns requested; the gate let the loop go on at 4 bytes
\* (22675.7 ns) and stopped it at 8 bytes, after a second region of 1 frame.
C18_Witness ==
  /\ duration = Dur(22675)
  /\ ~isCapturing
  /\ "Interrupted by SIGINT" \notin stdout
  /\ audio.DataSize = BN(8)
  /\ availableFrameSize = 1
  /\ calls.Append = 2

\* The wide number a is a multiple of the integer d > 0.
IsMultiple(a, d) == BNDivR(a, d).r = 0

\* C19: from the start of the loop on, DataSize and the length of RawData
\* are multiples of the block align (4 bytes, one frame), also after
\* DataSize has wrapped; so are the data size field and the body of the file
\* written.
C19_WholeFrames ==
  (pc \in LoopPcs \cup {"Stop", "return", "done", "fatal"} /\ audio.BlockAlign > 0) =>
    /\ audio.BlockAlign = 4
    /\ IsMultiple(audio.DataSize, audio.BlockAlign)
    /\ IsMultiple(BLen(audio.RawData), audio.BlockAlign)
    /\ (file # EmptyStr =>
          /\ IsMultiple(Field(file, 41, 44), 4)
          /\ IsMultiple(BLen(BodyOf(file)), 4))

\* C19 witness: at an iteration top after five appends that took DataSize
\* past 2^32, to 176384.
C19_Witness ==
  /\ pc = "loop"
  /\ calls.Append = 5
  /\ audio.DataSize = BN(176384)
  /\ BNLess(<<255, 255, 255, 255>>, BLen(audio.RawData))

====
